---- MODULE Spec2Model ----
(***************************************************************************)
(* Model of bin/anthology/volumes.py (class Volume).                       *)
(*                                                                         *)
(* Python strings are modelled as sequences of characters, so indexing,    *)
(* s[0], slicing, s[:2], and the two regular-expression                    *)
(* searches of _set_meta_info are computed character by character.         *)
(* A character is a one-character string; a character that a TLA+ string   *)
(* cannot hold (outside printable ASCII, \t, \n, \r, \f) is the string     *)
(* "U+hhhh" of its code point, such as "U+00A0" for the no-break space.    *)
(* Python's None is modelled by Null, the empty sequence: an identifier    *)
(* built by full_id always holds the "-" separator and is never empty.     *)
(***************************************************************************)
EXTENDS Integers, Sequences, FiniteSets, TLC

VARIABLES
    papers,        \* Paper objects: paper_id, top_level_id, attrib (a reference)
    parent,        \* paper.parent_volume_id of each Paper, Null for None
    dicts,         \* the dict objects attrib refers to, by reference
    volumes,       \* Volume objects in order of allocation
    venue_index,   \* VenueIndex: what register() saw and returned, per call
    sig_index,     \* SIGIndex: argument and result of each get_associated_sigs call
    pc,            \* position of the single thread of control
    cur,           \* the running call: volume, paper, who called, state at entry
    last           \* outcome of the call that finished last

vars == <<papers, parent, dicts, volumes, venue_index, sig_index, pc, cur, last>>

-----------------------------------------------------------------------------
(* Bounds of the exploration                                               *)

NumPapers == 3
MaxVolumes == 2
MaxAppends == 1

Null == <<>>

-----------------------------------------------------------------------------
(* Strings                                                                 *)

Min(a, b) == IF a < b THEN a ELSE b

\* s[:n] of Python: the first n characters, fewer when s is shorter
Prefix(s, n) == SubSeq(s, 1, Min(n, Len(s)))

UpperCase == <<"A","B","C","D","E","F","G","H","I","J","K","L","M",
               "N","O","P","Q","R","S","T","U","V","W","X","Y","Z">>
LowerCase == <<"a","b","c","d","e","f","g","h","i","j","k","l","m",
               "n","o","p","q","r","s","t","u","v","w","x","y","z">>

\* the characters other than l and its capital that re.IGNORECASE lets the
\* pattern letter l match: dotted and dotless I, long s, the Kelvin sign
OtherCases(l) ==
    CASE l = "i" -> {"U+0130", "U+0131"}
      [] l = "s" -> {"U+017F"}
      [] l = "k" -> {"U+212A"}
      [] OTHER   -> {}

\* the pattern letter l (lower case, ASCII) matches the character c under
\* re.IGNORECASE
CharMatches(c, l) ==
    \/ c = l
    \/ \E i \in 1..Len(LowerCase) : LowerCase[i] = l /\ UpperCase[i] = c
    \/ c \in OtherCases(l)

\* \s of the re module on a str pattern: the Unicode whitespace
SpaceChars ==
    {"\t", "\n", "U+000B", "\f", "\r", "U+001C", "U+001D", "U+001E",
     "U+001F", " ", "U+0085", "U+00A0", "U+1680", "U+2000", "U+2001",
     "U+2002", "U+2003", "U+2004", "U+2005", "U+2006", "U+2007", "U+2008",
     "U+2009", "U+200A", "U+2028", "U+2029", "U+202F", "U+205F", "U+3000"}

\* \d of the re module on a str pattern: the decimal digits of every script
\* (Unicode 14.0.0, category Nd)
DigitChars ==
    {"0", "1", "2", "3", "4", "5", "6", "7", "8", "9", "U+0660", "U+0661",
     "U+0662", "U+0663", "U+0664", "U+0665", "U+0666", "U+0667", "U+0668",
     "U+0669", "U+06F0", "U+06F1", "U+06F2", "U+06F3", "U+06F4", "U+06F5",
     "U+06F6", "U+06F7", "U+06F8", "U+06F9", "U+07C0", "U+07C1", "U+07C2",
     "U+07C3", "U+07C4", "U+07C5", "U+07C6", "U+07C7", "U+07C8", "U+07C9",
     "U+0966", "U+0967", "U+0968", "U+0969", "U+096A", "U+096B", "U+096C",
     "U+096D", "U+096E", "U+096F", "U+09E6", "U+09E7", "U+09E8", "U+09E9",
     "U+09EA", "U+09EB", "U+09EC", "U+09ED", "U+09EE", "U+09EF", "U+0A66",
     "U+0A67", "U+0A68", "U+0A69", "U+0A6A", "U+0A6B", "U+0A6C", "U+0A6D",
     "U+0A6E", "U+0A6F", "U+0AE6", "U+0AE7", "U+0AE8", "U+0AE9", "U+0AEA",
     "U+0AEB", "U+0AEC", "U+0AED", "U+0AEE", "U+0AEF", "U+0B66", "U+0B67",
     "U+0B68", "U+0B69", "U+0B6A", "U+0B6B", "U+0B6C", "U+0B6D", "U+0B6E",
     "U+0B6F", "U+0BE6", "U+0BE7", "U+0BE8", "U+0BE9", "U+0BEA", "U+0BEB",
     "U+0BEC", "U+0BED", "U+0BEE", "U+0BEF", "U+0C66", "U+0C67", "U+0C68",
     "U+0C69", "U+0C6A", "U+0C6B", "U+0C6C", "U+0C6D", "U+0C6E", "U+0C6F",
     "U+0CE6", "U+0CE7", "U+0CE8", "U+0CE9", "U+0CEA", "U+0CEB", "U+0CEC",
     "U+0CED", "U+0CEE", "U+0CEF", "U+0D66", "U+0D67", "U+0D68", "U+0D69",
     "U+0D6A", "U+0D6B", "U+0D6C", "U+0D6D", "U+0D6E", "U+0D6F", "U+0DE6",
     "U+0DE7", "U+0DE8", "U+0DE9", "U+0DEA", "U+0DEB", "U+0DEC", "U+0DED",
     "U+0DEE", "U+0DEF", "U+0E50", "U+0E51", "U+0E52", "U+0E53", "U+0E54",
     "U+0E55", "U+0E56", "U+0E57", "U+0E58", "U+0E59", "U+0ED0", "U+0ED1",
     "U+0ED2", "U+0ED3", "U+0ED4", "U+0ED5", "U+0ED6", "U+0ED7", "U+0ED8",
     "U+0ED9", "U+0F20", "U+0F21", "U+0F22", "U+0F23", "U+0F24", "U+0F25",
     "U+0F26", "U+0F27", "U+0F28", "U+0F29", "U+1040", "U+1041", "U+1042",
     "U+1043", "U+1044", "U+1045", "U+1046", "U+1047", "U+1048", "U+1049",
     "U+1090", "U+1091", "U+1092", "U+1093", "U+1094", "U+1095", "U+1096",
     "U+1097", "U+1098", "U+1099", "U+17E0", "U+17E1", "U+17E2", "U+17E3",
     "U+17E4", "U+17E5", "U+17E6", "U+17E7", "U+17E8", "U+17E9", "U+1810",
     "U+1811", "U+1812", "U+1813", "U+1814", "U+1815", "U+1816", "U+1817",
     "U+1818", "U+1819", "U+1946", "U+1947", "U+1948", "U+1949", "U+194A",
     "U+194B", "U+194C", "U+194D", "U+194E", "U+194F", "U+19D0", "U+19D1",
     "U+19D2", "U+19D3", "U+19D4", "U+19D5", "U+19D6", "U+19D7", "U+19D8",
     "U+19D9", "U+1A80", "U+1A81", "U+1A82", "U+1A83", "U+1A84", "U+1A85",
     "U+1A86", "U+1A87", "U+1A88", "U+1A89", "U+1A90", "U+1A91", "U+1A92",
     "U+1A93", "U+1A94", "U+1A95", "U+1A96", "U+1A97", "U+1A98", "U+1A99",
     "U+1B50", "U+1B51", "U+1B52", "U+1B53", "U+1B54", "U+1B55", "U+1B56",
     "U+1B57", "U+1B58", "U+1B59", "U+1BB0", "U+1BB1", "U+1BB2", "U+1BB3",
     "U+1BB4", "U+1BB5", "U+1BB6", "U+1BB7", "U+1BB8", "U+1BB9", "U+1C40",
     "U+1C41", "U+1C42", "U+1C43", "U+1C44", "U+1C45", "U+1C46", "U+1C47",
     "U+1C48", "U+1C49", "U+1C50", "U+1C51", "U+1C52", "U+1C53", "U+1C54",
     "U+1C55", "U+1C56", "U+1C57", "U+1C58", "U+1C59", "U+A620", "U+A621",
     "U+A622", "U+A623", "U+A624", "U+A625", "U+A626", "U+A627", "U+A628",
     "U+A629", "U+A8D0", "U+A8D1", "U+A8D2", "U+A8D3", "U+A8D4", "U+A8D5",
     "U+A8D6", "U+A8D7", "U+A8D8", "U+A8D9", "U+A900", "U+A901", "U+A902",
     "U+A903", "U+A904", "U+A905", "U+A906", "U+A907", "U+A908", "U+A909",
     "U+A9D0", "U+A9D1", "U+A9D2", "U+A9D3", "U+A9D4", "U+A9D5", "U+A9D6",
     "U+A9D7", "U+A9D8", "U+A9D9", "U+A9F0", "U+A9F1", "U+A9F2", "U+A9F3",
     "U+A9F4", "U+A9F5", "U+A9F6", "U+A9F7", "U+A9F8", "U+A9F9", "U+AA50",
     "U+AA51", "U+AA52", "U+AA53", "U+AA54", "U+AA55", "U+AA56", "U+AA57",
     "U+AA58", "U+AA59", "U+ABF0", "U+ABF1", "U+ABF2", "U+ABF3", "U+ABF4",
     "U+ABF5", "U+ABF6", "U+ABF7", "U+ABF8", "U+ABF9", "U+FF10", "U+FF11",
     "U+FF12", "U+FF13", "U+FF14", "U+FF15", "U+FF16", "U+FF17", "U+FF18",
     "U+FF19", "U+104A0", "U+104A1", "U+104A2", "U+104A3", "U+104A4",
     "U+104A5", "U+104A6", "U+104A7", "U+104A8", "U+104A9", "U+10D30",
     "U+10D31", "U+10D32", "U+10D33", "U+10D34", "U+10D35", "U+10D36",
     "U+10D37", "U+10D38", "U+10D39", "U+11066", "U+11067", "U+11068",
     "U+11069", "U+1106A", "U+1106B", "U+1106C", "U+1106D", "U+1106E",
     "U+1106F", "U+110F0", "U+110F1", "U+110F2", "U+110F3", "U+110F4",
     "U+110F5", "U+110F6", "U+110F7", "U+110F8", "U+110F9", "U+11136",
     "U+11137", "U+11138", "U+11139", "U+1113A", "U+1113B", "U+1113C",
     "U+1113D", "U+1113E", "U+1113F", "U+111D0", "U+111D1", "U+111D2",
     "U+111D3", "U+111D4", "U+111D5", "U+111D6", "U+111D7", "U+111D8",
     "U+111D9", "U+112F0", "U+112F1", "U+112F2", "U+112F3", "U+112F4",
     "U+112F5", "U+112F6", "U+112F7", "U+112F8", "U+112F9", "U+11450",
     "U+11451", "U+11452", "U+11453", "U+11454", "U+11455", "U+11456",
     "U+11457", "U+11458", "U+11459", "U+114D0", "U+114D1", "U+114D2",
     "U+114D3", "U+114D4", "U+114D5", "U+114D6", "U+114D7", "U+114D8",
     "U+114D9", "U+11650", "U+11651", "U+11652", "U+11653", "U+11654",
     "U+11655", "U+11656", "U+11657", "U+11658", "U+11659", "U+116C0",
     "U+116C1", "U+116C2", "U+116C3", "U+116C4", "U+116C5", "U+116C6",
     "U+116C7", "U+116C8", "U+116C9", "U+11730", "U+11731", "U+11732",
     "U+11733", "U+11734", "U+11735", "U+11736", "U+11737", "U+11738",
     "U+11739", "U+118E0", "U+118E1", "U+118E2", "U+118E3", "U+118E4",
     "U+118E5", "U+118E6", "U+118E7", "U+118E8", "U+118E9", "U+11950",
     "U+11951", "U+11952", "U+11953", "U+11954", "U+11955", "U+11956",
     "U+11957", "U+11958", "U+11959", "U+11C50", "U+11C51", "U+11C52",
     "U+11C53", "U+11C54", "U+11C55", "U+11C56", "U+11C57", "U+11C58",
     "U+11C59", "U+11D50", "U+11D51", "U+11D52", "U+11D53", "U+11D54",
     "U+11D55", "U+11D56", "U+11D57", "U+11D58", "U+11D59", "U+11DA0",
     "U+11DA1", "U+11DA2", "U+11DA3", "U+11DA4", "U+11DA5", "U+11DA6",
     "U+11DA7", "U+11DA8", "U+11DA9", "U+16A60", "U+16A61", "U+16A62",
     "U+16A63", "U+16A64", "U+16A65", "U+16A66", "U+16A67", "U+16A68",
     "U+16A69", "U+16AC0", "U+16AC1", "U+16AC2", "U+16AC3", "U+16AC4",
     "U+16AC5", "U+16AC6", "U+16AC7", "U+16AC8", "U+16AC9", "U+16B50",
     "U+16B51", "U+16B52", "U+16B53", "U+16B54", "U+16B55", "U+16B56",
     "U+16B57", "U+16B58", "U+16B59", "U+1D7CE", "U+1D7CF", "U+1D7D0",
     "U+1D7D1", "U+1D7D2", "U+1D7D3", "U+1D7D4", "U+1D7D5", "U+1D7D6",
     "U+1D7D7", "U+1D7D8", "U+1D7D9", "U+1D7DA", "U+1D7DB", "U+1D7DC",
     "U+1D7DD", "U+1D7DE", "U+1D7DF", "U+1D7E0", "U+1D7E1", "U+1D7E2",
     "U+1D7E3", "U+1D7E4", "U+1D7E5", "U+1D7E6", "U+1D7E7", "U+1D7E8",
     "U+1D7E9", "U+1D7EA", "U+1D7EB", "U+1D7EC", "U+1D7ED", "U+1D7EE",
     "U+1D7EF", "U+1D7F0", "U+1D7F1", "U+1D7F2", "U+1D7F3", "U+1D7F4",
     "U+1D7F5", "U+1D7F6", "U+1D7F7", "U+1D7F8", "U+1D7F9", "U+1D7FA",
     "U+1D7FB", "U+1D7FC", "U+1D7FD", "U+1D7FE", "U+1D7FF", "U+1E140",
     "U+1E141", "U+1E142", "U+1E143", "U+1E144", "U+1E145", "U+1E146",
     "U+1E147", "U+1E148", "U+1E149", "U+1E2F0", "U+1E2F1", "U+1E2F2",
     "U+1E2F3", "U+1E2F4", "U+1E2F5", "U+1E2F6", "U+1E2F7", "U+1E2F8",
     "U+1E2F9", "U+1E950", "U+1E951", "U+1E952", "U+1E953", "U+1E954",
     "U+1E955", "U+1E956", "U+1E957", "U+1E958", "U+1E959", "U+1FBF0",
     "U+1FBF1", "U+1FBF2", "U+1FBF3", "U+1FBF4", "U+1FBF5", "U+1FBF6",
     "U+1FBF7", "U+1FBF8", "U+1FBF9"}

IsDigit(c) == c \in DigitChars
IsSpace(c) == c \in SpaceChars

\* the literal lit (given in lower case) matches s at position i, ignoring case
MatchLit(s, i, lit) ==
    /\ i + Len(lit) - 1 <= Len(s)
    /\ \A k \in 1..Len(lit) : CharMatches(s[i + k - 1], lit[k])

\* greedy \s* and \d* from position i: the first position they do not consume
RECURSIVE SkipSpaces(_, _)
SkipSpaces(s, i) ==
    IF i <= Len(s) /\ IsSpace(s[i]) THEN SkipSpaces(s, i + 1) ELSE i

RECURSIVE SkipDigits(_, _)
SkipDigits(s, i) ==
    IF i <= Len(s) /\ IsDigit(s[i]) THEN SkipDigits(s, i + 1) ELSE i

-----------------------------------------------------------------------------
(* _set_meta_info: the two regular-expression searches                     *)

LitVolume == <<"v","o","l","u","m","e">>
LitNumber == <<"n","u","m","b","e","r">>
LitIssue  == <<"i","s","s","u","e">>

\* r"Volume\s*(\d+)" matched at position i. \s* is greedy and a space is no
\* digit, so backtracking into \s* never turns a failure into a match.
VolumeDigitsFrom(s, i) == SkipSpaces(s, i + Len(LitVolume))
VolumeMatchAt(s, i) ==
    /\ MatchLit(s, i, LitVolume)
    /\ SkipDigits(s, VolumeDigitsFrom(s, i)) > VolumeDigitsFrom(s, i)

\* re.search: the leftmost position with a match
VolumeMatches(s) == \E i \in 1..Len(s) : VolumeMatchAt(s, i)
VolumePos(s) ==
    CHOOSE i \in 1..Len(s) :
        VolumeMatchAt(s, i) /\ \A k \in 1..(i - 1) : ~VolumeMatchAt(s, k)

\* volume_no.group(1)
VolumeGroup(s) ==
    SubSeq(s, VolumeDigitsFrom(s, VolumePos(s)),
              SkipDigits(s, VolumeDigitsFrom(s, VolumePos(s))) - 1)

\* r"(Number|Issue)\s*(\d+-?\d*)" matched at position i
KeywordLen(s, i) ==
    IF MatchLit(s, i, LitNumber) THEN Len(LitNumber) ELSE Len(LitIssue)
IssueDigitsFrom(s, i) == SkipSpaces(s, i + KeywordLen(s, i))
IssueMatchAt(s, i) ==
    /\ MatchLit(s, i, LitNumber) \/ MatchLit(s, i, LitIssue)
    /\ SkipDigits(s, IssueDigitsFrom(s, i)) > IssueDigitsFrom(s, i)

IssueMatches(s) == \E i \in 1..Len(s) : IssueMatchAt(s, i)
IssuePos(s) ==
    CHOOSE i \in 1..Len(s) :
        IssueMatchAt(s, i) /\ \A k \in 1..(i - 1) : ~IssueMatchAt(s, k)

\* the end of \d+-?\d* started at position j: digits, one optional hyphen, digits
IssueEnd(s, j) ==
    LET k == SkipDigits(s, j)
        h == IF k <= Len(s) /\ s[k] = "-" THEN k + 1 ELSE k
    IN  SkipDigits(s, h)

\* issue_no.group(2)
IssueGroup(s) ==
    SubSeq(s, IssueDigitsFrom(s, IssuePos(s)),
              IssueEnd(s, IssueDigitsFrom(s, IssuePos(s))) - 1)

-----------------------------------------------------------------------------
(* Mappings (Python dict): a function whose DOMAIN is the set of keys      *)

EmptyMap == [k \in {} |-> Null]
Has(a, k) == k \in DOMAIN a
Put(a, k, v) == [x \in (DOMAIN a) \cup {k} |-> IF x = k THEN v ELSE a[x]]
Del(a, k) == [x \in (DOMAIN a) \ {k} |-> a[x]]

-----------------------------------------------------------------------------
(* Collaborators, known by their interface only                            *)

\* Paper.full_id: the paper's own identifier, collection code and paper id
PaperFullId(p) == p.top_level_id \o <<"-">> \o p.paper_id

\* data.ANTHOLOGY_URL.format(id): a fixed template with one placeholder
ANTHOLOGY_URL(id) == <<"/","a","n","t","h","o","l","o","g","y","/">> \o id

\* data.get_journal_title(top_level_id, title): some value of its two inputs
get_journal_title(top_level_id, title) == <<top_level_id, title>>

\* what VenueIndex.register may return; the index decides, and its answer may
\* depend on the volumes registered before
VenueSets == {{"ACL"}, {"ACL", "WS"}}

\* SIGIndex.get_associated_sigs(id): a lookup in the loaded SIG records, here
\* one record that names the workshop front matter W15-1000
get_associated_sigs(id) ==
    IF id = <<"W","1","5","-","1","0","0","0">> THEN {"SIGDAT"} ELSE {}

-----------------------------------------------------------------------------
(* class Volume: the pure parts                                            *)

\* full_id evaluates top_level_id[0], and front_matter_id[0] outside the
\* workshop scheme: an empty string there raises IndexError
full_id_raises(v) ==
    \/ Len(v.top_level_id) = 0
    \/ v.top_level_id[1] # "W" /\ Len(v.front_matter_id) = 0

full_id_TwoChars(v) ==
    v.top_level_id \o <<"-">> \o Prefix(v.front_matter_id, 2)

full_id(v) ==
    IF v.top_level_id[1] = "W"
    THEN v.top_level_id \o <<"-">> \o Prefix(v.front_matter_id, 2)
    ELSE v.top_level_id \o <<"-">> \o <<v.front_matter_id[1]>>

\* lines 23-26: authors of the front matter are the volume's editors
RenameAuthor(a) ==
    IF Has(a, "author") THEN Del(Put(a, "editor", a["author"]), "author") ELSE a

\* lines 28-30: fields that are not copied from the front matter
DropPaperFields(a) == Del(Del(Del(a, "revision"), "erratum"), "pages")

\* line 31
SetUrl(a, v) == Put(a, "url", ANTHOLOGY_URL(full_id(v)))

StoreVenues(a, r) == Put(a, "venues", r)

StoreSigs_AsVenues(a, r) == Put(a, "venues", r)

StoreSigs(a, r) == Put(a, "sigs", r)

\* the identifier get_associated_sigs is asked about (line 33)
SigQueryId_Volume(v, p) == full_id(v)

SigQueryId(v, p) == PaperFullId(p)

set_meta_info_Sentinel(a, top_level_id) ==
    LET a1 == Put(a, "meta_journal_title",
                  get_journal_title(top_level_id, a["title"]))
        a2 == Put(a1, "meta_volume",
                  IF VolumeMatches(a["title"]) THEN VolumeGroup(a["title"]) ELSE Null)
    IN  IF IssueMatches(a["title"])
        THEN Put(a2, "meta_issue", IssueGroup(a["title"]))
        ELSE a2

\* _set_meta_info, lines 45-57; a["title"] of a mapping without title raises
\* KeyError (set_meta_info_raises)
set_meta_info_raises(a) == ~Has(a, "title")

set_meta_info(a, top_level_id) ==
    LET a1 == Put(a, "meta_journal_title",
                  get_journal_title(top_level_id, a["title"]))
        a2 == IF VolumeMatches(a["title"])
              THEN Put(a1, "meta_volume", VolumeGroup(a["title"]))
              ELSE a1
    IN  IF IssueMatches(a["title"])
        THEN Put(a2, "meta_issue", IssueGroup(a["title"]))
        ELSE a2

\* Volume.get(name, default) on the volume's attrib a
get(a, name, default) == IF Has(a, name) THEN a[name] ELSE default

\* Volume.paper_ids
paper_ids(v) == [i \in 1..Len(v.content) |-> PaperFullId(papers[v.content[i]])]

\* line 36: J and Q have no front matter
HasFrontMatter(v) == v.top_level_id[1] \notin {"J", "Q"}

-----------------------------------------------------------------------------
(* The papers of the archive                                               *)

W15 == <<"W","1","5">>
P15 == <<"P","1","5">>
Q15 == <<"Q","1","5">>
J15 == <<"J","1","5">>
Id1000 == <<"1","0","0","0">>
Id1001 == <<"1","0","0","1">>

\* "Proceedings of the Workshop, Volume 2"
TitleWorkshop ==
    <<"P","r","o","c","e","e","d","i","n","g","s"," ","o","f"," ","t","h","e"," ",
      "W","o","r","k","s","h","o","p",","," ","V","o","l","u","m","e"," ","2">>
\* "A Paper"
TitlePaper == <<"A"," ","P","a","p","e","r">>
\* "Transactions, Volume 3, Issue 12-13"
TitleJournal ==
    <<"T","r","a","n","s","a","c","t","i","o","n","s",","," ","V","o","l","u","m","e",
      " ","3",","," ","I","s","s","u","e"," ","1","2","-","1","3">>
\* "Proceedings"
TitlePlain == <<"P","r","o","c","e","e","d","i","n","g","s">>

MkPaper(tl, id, attrib) == [top_level_id |-> tl, paper_id |-> id, attrib |-> attrib]

\* A workshop front matter, a journal front matter, a paper of the workshop
\* volume and a conference front matter
Profiles ==
    << MkPaper(W15, Id1000,
               [k \in {"title", "author"} |->
                   IF k = "title" THEN TitleWorkshop ELSE <<"A. Editor">>]),
       MkPaper(Q15, Id1000,
               [k \in {"title"} |-> TitleJournal]),
       MkPaper(W15, Id1001,
               [k \in {"title", "author", "pages"} |->
                   IF k = "title" THEN TitlePaper
                   ELSE IF k = "author" THEN <<"An Author">> ELSE <<"1-10">>]),
       MkPaper(P15, Id1000,
               [k \in {"title", "url"} |->
                   IF k = "title" THEN TitlePlain ELSE <<"h","t","t","p">>]) >>

Profile(i) == Profiles[((i - 1) % Len(Profiles)) + 1]

PaperIds == 1..NumPapers

-----------------------------------------------------------------------------
(* State                                                                   *)

\* dict objects: one per paper, one per volume
Refs == 1..(NumPapers + MaxVolumes)

\* the attrib of a volume record and of a paper
Attrib(v) == dicts[v.attrib]

NoCall == [vol |-> 0, paper |-> 0, caller |-> "none", parent0 |-> Null, len0 |-> 0]

NoResult ==
    [op |-> "none", vol |-> 0, paper |-> 0, err |-> "none", parent0 |-> Null, len0 |-> 0]

Result(op, err) ==
    [op |-> op, vol |-> cur.vol, paper |-> cur.paper, err |-> err,
     parent0 |-> cur.parent0, len0 |-> cur.len0]

\* the archive as loaded: paper i, its attributes in dict i, no volume yet
Loaded(records) ==
    /\ papers = [i \in PaperIds |->
                    [top_level_id |-> records[i].top_level_id,
                     paper_id |-> records[i].paper_id,
                     attrib |-> i]]
    /\ dicts = [r \in Refs |-> IF r \in PaperIds THEN records[r].attrib ELSE EmptyMap]
    /\ parent = [i \in PaperIds |-> Null]
    /\ volumes = <<>>
    /\ venue_index = <<>>
    /\ sig_index = <<>>
    /\ pc = "idle"
    /\ cur = NoCall
    /\ last = NoResult

Init == Loaded([i \in PaperIds |-> Profile(i)])

\* an exception leaves the constructor: the caller gets no volume
CtorRaise(err) ==
    /\ volumes' = [volumes EXCEPT ![cur.vol].status = "raised"]
    /\ pc' = "idle"
    /\ last' = Result("construct", err)
    /\ cur' = NoCall

-----------------------------------------------------------------------------
(* Volume.__init__                                                         *)

AttribRef_Shared(vol, p) == papers[p].attrib

\* line 22: front_matter.attrib.copy() is a new dict, the one of volume vol
AttribRef(vol, p) == NumPapers + vol

\* lines 20-22: identity and a copy of the front matter's attributes.
\* front_matter is the constructor's argument, kept to state properties.
Construct(p) ==
    /\ pc = "idle"
    /\ Len(volumes) < MaxVolumes
    /\ volumes' = Append(volumes,
            [front_matter_id |-> papers[p].paper_id,
             top_level_id |-> papers[p].top_level_id,
             attrib |-> AttribRef(Len(volumes) + 1, p),
             content_set |-> FALSE,
             content |-> <<>>,
             front_matter |-> p,
             status |-> "building"])
    /\ dicts' = [dicts EXCEPT ![AttribRef(Len(volumes) + 1, p)] = dicts[papers[p].attrib]]
    /\ cur' = [vol |-> Len(volumes) + 1, paper |-> p, caller |-> "ctor",
               parent0 |-> parent[p], len0 |-> 0]
    /\ pc' = "ctor_attrib"
    /\ UNCHANGED <<papers, parent, venue_index, sig_index, last>>

\* lines 23-31: editor, dropped fields, url
CtorAttrib ==
    /\ pc = "ctor_attrib"
    /\ LET v == volumes[cur.vol]
           a == DropPaperFields(RenameAuthor(Attrib(v)))
       IN  IF full_id_raises(v)
           THEN /\ CtorRaise("IndexError")
                /\ dicts' = [dicts EXCEPT ![v.attrib] = a]
                /\ UNCHANGED <<papers, parent, venue_index, sig_index>>
           ELSE /\ dicts' = [dicts EXCEPT ![v.attrib] = SetUrl(a, v)]
                /\ pc' = "ctor_register"
                /\ UNCHANGED <<papers, parent, volumes, venue_index, sig_index,
                               cur, last>>

\* line 32: the index records the volume as it is now and answers
CtorRegister ==
    /\ pc = "ctor_register"
    /\ \E r \in VenueSets :
        /\ venue_index' = Append(venue_index,
                [vol |-> cur.vol,
                 full_id |-> full_id(volumes[cur.vol]),
                 keys |-> DOMAIN Attrib(volumes[cur.vol]),
                 content_set |-> volumes[cur.vol].content_set,
                 fm_parent |-> parent[cur.paper],
                 sig_calls |-> Len(sig_index),
                 ret |-> r])
        /\ dicts' = [dicts EXCEPT ![volumes[cur.vol].attrib] = StoreVenues(@, r)]
    /\ pc' = "ctor_sigs"
    /\ UNCHANGED <<papers, parent, volumes, sig_index, cur, last>>

\* line 33
CtorSigs ==
    /\ pc = "ctor_sigs"
    /\ LET id == SigQueryId(volumes[cur.vol], papers[cur.paper])
           r == get_associated_sigs(id)
       IN  /\ sig_index' = Append(sig_index,
                    [vol |-> cur.vol,
                     arg |-> id,
                     keys |-> DOMAIN Attrib(volumes[cur.vol]),
                     content_set |-> volumes[cur.vol].content_set,
                     ret |-> r])
           /\ dicts' = [dicts EXCEPT ![volumes[cur.vol].attrib] = StoreSigs(@, r)]
    /\ pc' = "ctor_meta"
    /\ UNCHANGED <<papers, parent, volumes, venue_index, cur, last>>

\* line 34
CtorMeta ==
    /\ pc = "ctor_meta"
    /\ LET v == volumes[cur.vol]
       IN  IF set_meta_info_raises(Attrib(v))
           THEN /\ CtorRaise("KeyError")
                /\ UNCHANGED <<papers, parent, dicts, venue_index, sig_index>>
           ELSE /\ dicts' = [dicts EXCEPT
                        ![v.attrib] = set_meta_info(@, v.top_level_id)]
                /\ pc' = "ctor_content"
                /\ UNCHANGED <<papers, parent, volumes, venue_index, sig_index,
                               cur, last>>

\* lines 35-38: content starts empty; the front matter is appended unless J or Q
CtorContent ==
    /\ pc = "ctor_content"
    /\ IF HasFrontMatter(volumes[cur.vol])
       THEN /\ volumes' = [volumes EXCEPT ![cur.vol].content_set = TRUE,
                                          ![cur.vol].content = <<>>]
            /\ pc' = "append_add"
            /\ UNCHANGED <<cur, last>>
       ELSE /\ volumes' = [volumes EXCEPT ![cur.vol].content_set = TRUE,
                                          ![cur.vol].content = <<>>,
                                          ![cur.vol].status = "ok"]
            /\ pc' = "idle"
            /\ last' = Result("construct", "none")
            /\ cur' = NoCall
    /\ UNCHANGED <<papers, parent, dicts, venue_index, sig_index>>

-----------------------------------------------------------------------------
(* Volume.append                                                           *)

\* the papers callers have appended so far: every entry of a content list
\* other than the front matter its constructor put there
RECURSIVE ClientAppends(_)
ClientAppends(vs) ==
    IF vs = <<>> THEN 0
    ELSE ClientAppends(Tail(vs)) + Len(Head(vs).content)
         - (IF Head(vs).content_set /\ Head(vs).status # "building"
               /\ HasFrontMatter(Head(vs)) THEN 1 ELSE 0)

\* a caller appends paper p to a constructed volume
CallAppend(v, p) ==
    /\ pc = "idle"
    /\ v \in 1..Len(volumes)
    /\ volumes[v].status = "ok"
    /\ ClientAppends(volumes) < MaxAppends
    /\ cur' = [vol |-> v, paper |-> p, caller |-> "client",
               parent0 |-> parent[p], len0 |-> Len(volumes[v].content)]
    /\ pc' = "append_add"
    /\ UNCHANGED <<papers, parent, dicts, volumes, venue_index, sig_index, last>>

AppendAdd_Skip ==
    /\ pc = "append_add"
    /\ pc' = "append_check"
    /\ UNCHANGED <<papers, parent, dicts, volumes, venue_index, sig_index, cur, last>>

\* line 74
AppendAdd ==
    /\ pc = "append_add"
    /\ volumes' = [volumes EXCEPT ![cur.vol].content = Append(@, cur.paper)]
    /\ pc' = "append_check"
    /\ UNCHANGED <<papers, parent, dicts, venue_index, sig_index, cur, last>>

\* lines 75-80: the module binds no name log, so evaluating log.error raises
\* NameError; the exception leaves append, and the constructor when it called
AppendCheck ==
    /\ pc = "append_check"
    /\ IF parent[cur.paper] # Null
       THEN /\ pc' = "idle"
            /\ cur' = NoCall
            /\ IF cur.caller = "ctor"
               THEN /\ volumes' = [volumes EXCEPT ![cur.vol].status = "raised"]
                    /\ last' = Result("construct", "NameError")
               ELSE /\ last' = Result("append", "NameError")
                    /\ UNCHANGED volumes
       ELSE /\ pc' = "append_set"
            /\ UNCHANGED <<volumes, cur, last>>
    /\ UNCHANGED <<papers, parent, dicts, venue_index, sig_index>>

\* line 81, and the return to the caller
AppendSet ==
    /\ pc = "append_set"
    /\ parent' = [parent EXCEPT ![cur.paper] = full_id(volumes[cur.vol])]
    /\ pc' = "idle"
    /\ cur' = NoCall
    /\ IF cur.caller = "ctor"
       THEN /\ volumes' = [volumes EXCEPT ![cur.vol].status = "ok"]
            /\ last' = Result("construct", "none")
       ELSE /\ last' = Result("append", "none")
            /\ UNCHANGED volumes
    /\ UNCHANGED <<papers, dicts, venue_index, sig_index>>

-----------------------------------------------------------------------------

Next ==
    \/ \E p \in PaperIds : Construct(p)
    \/ CtorAttrib
    \/ CtorRegister
    \/ CtorSigs
    \/ CtorMeta
    \/ CtorContent
    \/ \E v \in 1..MaxVolumes, p \in PaperIds : CallAppend(v, p)
    \/ AppendAdd
    \/ AppendCheck
    \/ AppendSet

Spec == Init /\ [][Next]_vars

-----------------------------------------------------------------------------
(* Front matters for the constructor alone: identifiers of every scheme and *)
(* length, every combination of paper fields, and titles around the two    *)
(* patterns                                                                *)

\* "Proceedings, Volume 3": meta_volume "3", meta_issue absent
TitleVolume3 ==
    <<"P","r","o","c","e","e","d","i","n","g","s",","," ","V","o","l","u","m",
      "e"," ","3">>
\* "Issue 12-13": meta_volume absent, meta_issue "12-13"
TitleIssueRange ==
    <<"I","s","s","u","e"," ","1","2","-","1","3">>
\* "VOLUME12 number 7": meta_volume "12", meta_issue "7"
TitleUpper ==
    <<"V","O","L","U","M","E","1","2"," ","n","u","m","b","e","r"," ","7">>
\* "Volume": meta_volume absent, meta_issue absent
TitleNoDigits ==
    <<"V","o","l","u","m","e">>
\* "Volumes 3": meta_volume absent, meta_issue absent
TitlePlural ==
    <<"V","o","l","u","m","e","s"," ","3">>
\* "Volume x, volume 5": meta_volume "5", meta_issue absent
TitleSecond ==
    <<"V","o","l","u","m","e"," ","x",","," ","v","o","l","u","m","e"," ",
      "5">>
\* "Number 1-": meta_volume absent, meta_issue "1-"
TitleOpenRange ==
    <<"N","u","m","b","e","r"," ","1","-">>
\* "Issue -3": meta_volume absent, meta_issue absent
TitleHyphenFirst ==
    <<"I","s","s","u","e"," ","-","3">>
\* "Vol. 3, No. 2": meta_volume absent, meta_issue absent
TitleAbbrev ==
    <<"V","o","l","."," ","3",","," ","N","o","."," ","2">>
\* "Number 04, Issue 5": meta_volume absent, meta_issue "04"
TitleTwoIssues ==
    <<"N","u","m","b","e","r"," ","0","4",","," ","I","s","s","u","e"," ",
      "5">>
\* "Volume\t 007": meta_volume "007", meta_issue absent
TitleTab ==
    <<"V","o","l","u","m","e","\t"," ","0","0","7">>
\* "Issue 1--2": meta_volume absent, meta_issue "1-"
TitleTwoHyphens ==
    <<"I","s","s","u","e"," ","1","-","-","2">>
\* "Volume 3-4": meta_volume "3", meta_issue absent
TitleVolumeRange ==
    <<"V","o","l","u","m","e"," ","3","-","4">>

\* "Volume" FF "3, Issue" NBSP "7": meta_volume "3", meta_issue "7"
TitleOtherSpaces ==
    <<"V","o","l","u","m","e","\f","3",","," ","I","s","s","u","e","U+00A0","7">>
\* "Volume " and the Arabic-Indic digits three, four: meta_volume is those digits
TitleArabicDigits ==
    <<"V","o","l","u","m","e"," ","U+0663","U+0664">>
\* dotless i, long s, long s, "ue 5": meta_issue "5"
TitleLongS ==
    <<"U+0131","U+017F","U+017F","u","e"," ","5">>

Titles ==
    {TitleWorkshop, TitlePaper, TitleJournal, TitlePlain, TitleVolume3,
     TitleIssueRange, TitleUpper, TitleNoDigits, TitlePlural, TitleSecond,
     TitleOpenRange, TitleHyphenFirst, TitleAbbrev, TitleTwoIssues, TitleTab,
     TitleTwoHyphens, TitleVolumeRange, TitleOtherSpaces, TitleArabicDigits,
     TitleLongS}

TopLevelIds == {W15, P15, Q15, J15, <<"W">>, <<>>}
PaperIdStrings == {Id1000, <<"1","0">>, <<"2">>, <<>>}

\* fields a paper record may carry besides its title
PaperFields == {"author", "editor", "url", "pages", "revision", "erratum", "year"}

FieldValue(k) ==
    CASE k = "author"   -> <<"A. Editor">>
      [] k = "editor"   -> <<"B. Editor">>
      [] k = "url"      -> <<"h","t","t","p">>
      [] k = "pages"    -> <<"1-10">>
      [] k = "revision" -> <<"v2">>
      [] k = "erratum"  -> <<"e1">>
      [] OTHER          -> <<"2015">>

AttribOf(fields, has_title, title) ==
    [k \in fields \cup (IF has_title THEN {"title"} ELSE {}) |->
        IF k = "title" THEN title ELSE FieldValue(k)]

FrontMatters ==
    {MkPaper(tl, id, AttribOf({"author"}, TRUE, TitleWorkshop)) :
        tl \in TopLevelIds, id \in PaperIdStrings}
    \cup
    {MkPaper(tl, Id1000, AttribOf(f, h, TitleJournal)) :
        tl \in {W15, Q15}, f \in SUBSET PaperFields, h \in BOOLEAN}
    \cup
    {MkPaper(tl, Id1000, AttribOf(f, TRUE, t)) :
        tl \in {W15, Q15}, f \in {{}, {"author", "pages"}}, t \in Titles}

\* paper 1 is the front matter under test, the others are as in Init
InitCtor ==
    \E fm \in FrontMatters :
        Loaded([i \in PaperIds |-> IF i = 1 THEN fm ELSE Profile(i)])

\* one volume is built from paper 1, then papers are appended to it
NextCtor ==
    \/ volumes = <<>> /\ Construct(1)
    \/ CtorAttrib
    \/ CtorRegister
    \/ CtorSigs
    \/ CtorMeta
    \/ CtorContent
    \/ \E p \in PaperIds : CallAppend(1, p)
    \/ AppendAdd
    \/ AppendCheck
    \/ AppendSet

SpecCtor == InitCtor /\ [][NextCtor]_vars

-----------------------------------------------------------------------------
(* Properties                                                              *)

VolumeIds == 1..Len(volumes)
Idle == pc = "idle"
Range(f) == {f[i] : i \in DOMAIN f}

\* C1: between calls, every paper in the content of a constructed volume has
\* parent_volume_id equal to that volume's full_id.
C1_ContentOwnedByVolume ==
    Idle =>
        \A v \in VolumeIds :
            volumes[v].status = "ok" =>
                \A i \in 1..Len(volumes[v].content) :
                    parent[volumes[v].content[i]] = full_id(volumes[v])

\* C2: when a caller's append(p) on volume v has ended, normally or not,
\* p.parent_volume_id is v.full_id and p.full_id is in v.paper_ids.
C2_AppendPostcondition ==
    (Idle /\ last.op = "append") =>
        /\ parent[last.paper] = full_id(volumes[last.vol])
        /\ PaperFullId(papers[last.paper]) \in Range(paper_ids(volumes[last.vol]))

\* C3: append(p) of a paper whose parent_volume_id was already set completes
\* normally, with p added to content and re-parented to this volume; append of
\* a paper without parent completes normally too.
C3_ConflictIsNotFatal ==
    (Idle /\ last.op = "append") =>
        /\ last.err = "none"
        /\ last.parent0 # Null =>
            /\ Len(volumes[last.vol].content) = last.len0 + 1
            /\ volumes[last.vol].content[last.len0 + 1] = last.paper
            /\ parent[last.paper] = full_id(volumes[last.vol])

\* C5: when a construction has ended, the volume's content is empty for a
\* top_level_id starting with J or Q, the front matter's parent_volume_id
\* being what it was; for every other first character the construction has
\* completed and content holds the front matter alone, whose parent_volume_id
\* is the volume's full_id.
C5_ContentAfterConstruction ==
    (Idle /\ last.op = "construct") =>
        LET v == volumes[last.vol]
        IN  IF v.top_level_id[1] \in {"J", "Q"}
            THEN /\ v.content = <<>>
                 /\ parent[last.paper] = last.parent0
            ELSE /\ last.err = "none"
                 /\ v.content = <<last.paper>>
                 /\ parent[last.paper] = full_id(v)

-----------------------------------------------------------------------------

\* the identifier the specification gives: two characters of the front
\* matter's id for the workshop prefix, one character otherwise
ExpectedFullId(v) ==
    v.top_level_id \o <<"-">> \o
        (IF v.top_level_id[1] = "W"
         THEN SubSeq(v.front_matter_id, 1, Min(2, Len(v.front_matter_id)))
         ELSE SubSeq(v.front_matter_id, 1, Min(1, Len(v.front_matter_id))))

FullIdAsSpecified ==
    \A v \in VolumeIds :
        ~full_id_raises(volumes[v]) =>
            /\ full_id(volumes[v]) = ExpectedFullId(volumes[v])
            /\ Has(Attrib(volumes[v]), "venues") =>
                   Attrib(volumes[v])["url"] = ANTHOLOGY_URL(ExpectedFullId(volumes[v]))

FullIdStable ==
    \A v \in VolumeIds :
        ~full_id_raises(volumes[v]) =>
            /\ full_id(volumes'[v]) = full_id(volumes[v])
            /\ volumes'[v].top_level_id = volumes[v].top_level_id
            /\ volumes'[v].front_matter_id = volumes[v].front_matter_id

\* C4: full_id is top_level_id, "-" and the first two characters of
\* front_matter_id for a W prefix, the first character otherwise, and no step,
\* append included, changes it.
C4_FullId == [](FullIdAsSpecified) /\ [][FullIdStable]_vars

\* a workshop volume W15-10 built from paper id 1000, after a caller's append
C4_Witness ==
    /\ Idle /\ last.op = "append" /\ last.err = "none"
    /\ volumes[1].top_level_id = W15
    /\ volumes[1].front_matter_id = Id1000
    /\ full_id(volumes[1]) = <<"W","1","5","-","1","0">>
    /\ Len(volumes[1].content) = 2

-----------------------------------------------------------------------------

Built(v) == volumes[v].status = "ok"

\* the front matter's own attrib, and the fields the constructor never keeps
FrontAttrib(v) == dicts[papers[volumes[v].front_matter].attrib]
DroppedKeys == {"author", "revision", "erratum", "pages"}

NoPaperFields(v) == DOMAIN Attrib(volumes[v]) \cap DroppedKeys = {}

AuthorIsEditor(v) ==
    Has(FrontAttrib(v), "author") =>
        /\ Has(Attrib(volumes[v]), "editor")
        /\ Attrib(volumes[v])["editor"] = FrontAttrib(v)["author"]

CopiedKeys(v, keys) ==
    \A k \in keys :
        /\ Has(Attrib(volumes[v]), k)
        /\ Attrib(volumes[v])[k] = FrontAttrib(v)[k]

\* the keys the constructor itself assigns, given the front matter's attrib
AssignedKeys(a) ==
    {"url", "venues", "sigs", "meta_journal_title"}
    \cup (IF Has(a, "author") THEN {"editor"} ELSE {})
    \cup (IF Has(a, "title") /\ VolumeMatches(a["title"]) THEN {"meta_volume"} ELSE {})
    \cup (IF Has(a, "title") /\ IssueMatches(a["title"]) THEN {"meta_issue"} ELSE {})

\* no step changes the dict of a paper
PaperDictsKept == \A i \in PaperIds : dicts'[papers[i].attrib] = dicts[papers[i].attrib]

\* C6 as stated: a constructed volume's attrib has none of author, revision,
\* erratum, pages; editor is the front matter's author; every other key of the
\* front matter is copied with its value.
C6_EveryOtherKeyCopied ==
    \A v \in VolumeIds :
        Built(v) =>
            /\ NoPaperFields(v)
            /\ AuthorIsEditor(v)
            /\ CopiedKeys(v, (DOMAIN FrontAttrib(v)) \ DroppedKeys)

\* C6, amended: as above, but the keys copied with their value are the front
\* matter's keys that the constructor neither drops nor assigns itself; and
\* the front matter's own dict is never changed.
C6_AttribDerived ==
    /\ [](\A v \in VolumeIds :
            Built(v) =>
                /\ NoPaperFields(v)
                /\ AuthorIsEditor(v)
                /\ CopiedKeys(v, (DOMAIN FrontAttrib(v))
                                     \ (DroppedKeys \cup AssignedKeys(FrontAttrib(v)))))
    /\ [][PaperDictsKept]_vars

\* a volume built from a front matter with author, editor, url, pages,
\* revision, erratum and year: the front matter keeps them all
C6_Witness ==
    /\ Len(volumes) = 1 /\ Built(1)
    /\ PaperFields \subseteq DOMAIN FrontAttrib(1)
    /\ Attrib(volumes[1])["editor"] = <<"A. Editor">>
    /\ Attrib(volumes[1])["year"] = <<"2015">>
    /\ ~Has(Attrib(volumes[1]), "pages")

-----------------------------------------------------------------------------

\* the calls an index has answered for volume v
CallsFor(index, v) == {i \in 1..Len(index) : index[i].vol = v}

\* C7: once stored, attrib["venues"] and attrib["sigs"] of a volume are what
\* the indexes returned in the one call its construction made, whatever was
\* registered, constructed or appended since.
C7_IndexResultsKept ==
    \A v \in VolumeIds :
        /\ Has(Attrib(volumes[v]), "venues") =>
               /\ Cardinality(CallsFor(venue_index, v)) = 1
               /\ \A i \in CallsFor(venue_index, v) :
                      Attrib(volumes[v])["venues"] = venue_index[i].ret
        /\ Has(Attrib(volumes[v]), "sigs") =>
               /\ Cardinality(CallsFor(sig_index, v)) = 1
               /\ \A i \in CallsFor(sig_index, v) :
                      Attrib(volumes[v])["sigs"] = sig_index[i].ret

\* two constructed volumes that the venue index classified differently, the
\* first with a SIG, after a later registration and a caller's append
C7_Witness ==
    /\ Idle /\ Len(volumes) = 2 /\ Built(1) /\ Built(2)
    /\ Attrib(volumes[1])["venues"] = {"ACL"}
    /\ Attrib(volumes[2])["venues"] = {"ACL", "WS"}
    /\ Attrib(volumes[1])["sigs"] = {"SIGDAT"}
    /\ last.op = "append" /\ last.err = "none"

-----------------------------------------------------------------------------

MetaDerived(v) == volumes[v].content_set
Title(v) == Attrib(volumes[v])["title"]

\* C8: once _set_meta_info has run, meta_journal_title is set, meta_volume is
\* a key exactly when the title matches the volume pattern and meta_issue
\* exactly when it matches the number/issue pattern, each holding the matched
\* digits; without a match get() returns the default.
C8_MetaKeys ==
    \A v \in VolumeIds :
        MetaDerived(v) =>
            LET a == Attrib(volumes[v])
            IN  /\ Has(a, "meta_journal_title")
                /\ Has(a, "meta_volume") <=> VolumeMatches(Title(v))
                /\ Has(a, "meta_issue") <=> IssueMatches(Title(v))
                /\ ~VolumeMatches(Title(v)) => get(a, "meta_volume", "default") = "default"
                /\ ~IssueMatches(Title(v)) => get(a, "meta_issue", "default") = "default"
                /\ Title(v) = TitleVolume3 =>
                       a["meta_volume"] = <<"3">> /\ ~Has(a, "meta_issue")
                /\ Title(v) = TitleIssueRange =>
                       a["meta_issue"] = <<"1","2","-","1","3">> /\ ~Has(a, "meta_volume")
                /\ Title(v) = TitleUpper =>
                       a["meta_volume"] = <<"1","2">> /\ a["meta_issue"] = <<"7">>
                /\ Title(v) = TitleOtherSpaces =>
                       a["meta_volume"] = <<"3">> /\ a["meta_issue"] = <<"7">>
                /\ Title(v) = TitleArabicDigits =>
                       a["meta_volume"] = <<"U+0663","U+0664">> /\ ~Has(a, "meta_issue")
                /\ Title(v) = TitleLongS =>
                       a["meta_issue"] = <<"5">> /\ ~Has(a, "meta_volume")
                /\ Title(v) \in {TitlePlain, TitleNoDigits, TitlePlural, TitleAbbrev} =>
                       ~Has(a, "meta_volume") /\ ~Has(a, "meta_issue")

\* a constructed volume whose title has an issue range and no volume number
C8_Witness ==
    /\ Len(volumes) = 1 /\ Built(1)
    /\ Title(1) = TitleIssueRange
    /\ get(Attrib(volumes[1]), "meta_issue", "default") = <<"1","2","-","1","3">>
    /\ ~Has(Attrib(volumes[1]), "meta_volume")

-----------------------------------------------------------------------------

\* C9 as stated: when append is about to check paper.parent_volume_id, the
\* volume's content is still what it was when append was called.
C9_CheckBeforeMutation ==
    pc = "append_check" => Len(volumes[cur.vol].content) = cur.len0

\* C9, amended: the check runs after the paper was added to content and
\* before the paper's parent_volume_id is changed.
C9_CheckAfterAddBeforeParent ==
    /\ pc = "append_add" =>
           /\ Len(volumes[cur.vol].content) = cur.len0
           /\ parent[cur.paper] = cur.parent0
    /\ pc = "append_check" =>
           /\ Len(volumes[cur.vol].content) = cur.len0 + 1
           /\ volumes[cur.vol].content[cur.len0 + 1] = cur.paper
           /\ parent[cur.paper] = cur.parent0
    /\ pc = "append_set" =>
           /\ Len(volumes[cur.vol].content) = cur.len0 + 1
           /\ parent[cur.paper] = Null

\* a caller's append of an already owned paper, about to be checked
C9_Witness ==
    /\ pc = "append_check" /\ cur.caller = "client"
    /\ cur.parent0 # Null
    /\ volumes[cur.vol].content[Len(volumes[cur.vol].content)] = cur.paper

-----------------------------------------------------------------------------

\* what register saw: editor and url done, nothing stored by a later step,
\* no content, no SIG lookup for this volume yet
RegisterSawAttribOnly ==
    \A i \in 1..Len(venue_index) :
        LET e == venue_index[i]
        IN  /\ "url" \in e.keys
            /\ e.keys \cap DroppedKeys = {}
            /\ e.keys \cap {"venues", "sigs", "meta_journal_title"} = {}
            /\ ~e.content_set
            /\ \A k \in CallsFor(sig_index, e.vol) : k > e.sig_calls
            /\ e.full_id = full_id(volumes[e.vol])
            /\ (cur.vol = e.vol /\ cur.caller = "ctor") => e.fm_parent = cur.parent0

\* the SIG lookup: by the front matter's own full_id, after register, before
\* the meta-info and the content
SigLookupByFrontMatter ==
    \A i \in 1..Len(sig_index) :
        LET e == sig_index[i]
        IN  /\ e.arg = PaperFullId(papers[volumes[e.vol].front_matter])
            /\ "venues" \in e.keys
            /\ e.keys \cap {"sigs", "meta_journal_title"} = {}
            /\ ~e.content_set

\* each step of a construction has behind it exactly one call of each index
OneCallEach ==
    \A v \in VolumeIds :
        /\ Cardinality(CallsFor(venue_index, v)) <= 1
        /\ Cardinality(CallsFor(sig_index, v)) <= 1
        /\ Has(Attrib(volumes[v]), "meta_journal_title") =>
               /\ Cardinality(CallsFor(venue_index, v)) = 1
               /\ Cardinality(CallsFor(sig_index, v)) = 1
        /\ volumes[v].content_set => Has(Attrib(volumes[v]), "meta_journal_title")
        /\ ~volumes[v].content_set => volumes[v].content = <<>>

\* C10: a construction does the attribute work and the url, then calls
\* register once, then get_associated_sigs once with the front matter's
\* full_id, then derives the meta-info, and only then sets up content and
\* appends the front matter.
C10_ConstructionOrder ==
    /\ RegisterSawAttribOnly
    /\ SigLookupByFrontMatter
    /\ OneCallEach

\* a constructed workshop volume W15-10 whose SIG lookup was made for W15-1000
C10_Witness ==
    /\ Len(volumes) >= 1 /\ Built(1)
    /\ volumes[1].content = <<1>>
    /\ full_id(volumes[1]) = <<"W","1","5","-","1","0">>
    /\ \E i \in CallsFor(sig_index, 1) :
           sig_index[i].arg = <<"W","1","5","-","1","0","0","0">>
    /\ \E i \in CallsFor(venue_index, 1) : venue_index[i].fm_parent = Null

====
